---------------------------- MODULE Spec2Model ----------------------------
(***************************************************************************)
(* The peer-interview shuffle of bootcamp.py (make_interview,              *)
(* assign_interviews, make_shuffle, reassign) together with the peer       *)
(* review and comment upload calls of canvaslms.py that it drives.         *)
(*                                                                         *)
(* Python dicts are sequences of <<key, value>> entries in insertion       *)
(* order, lists are sequences, None is NoId for user ids.                  *)
(***************************************************************************)
EXTENDS Integers, Sequences, FiniteSets, TLC

VARIABLES
    pc,                 \* position of the running command
    interviewers,       \* the caller's participant list (file lines or roster)
    q,                  \* the caller's question list (file lines)
    interviews,         \* dict returned by assign_interviews
    assessment_reviews, \* dict student -> reviewer for the assessment assignment
    feedback_reviews,   \* dict student -> reviewer for the feedback assignment
    assessment_comments,\* dict uid -> Grade: make_shuffle's grades, reassign's assessment_comments
    feedback_comments,  \* dict uid -> Grade: make_shuffle's feedback_links, reassign's feedback_comments
    log,                \* lines of assignments.log
    reviews,            \* external store: assigned peer reviews [asg, user, assessor]
    posted,             \* external store: comments posted [asg, uid, text]
    todo,               \* upload operations of the command still to start
    queue,              \* HTTP requests of the current operation still to issue
    calls,              \* HTTP requests issued so far by the command, in order
    failed,             \* an HTTP request of this command has failed
    dryrun,             \* Course.dryrun
    remargs,            \* the override arguments of reassign
    printed,            \* the reports reassign has printed for skipped overrides
    ntries,             \* make_interview: the number of tries made so far
    start_reviews       \* the peer reviews of the store when the command started

vars == <<pc, interviewers, q, interviews, assessment_reviews, feedback_reviews,
          assessment_comments, feedback_comments, log, reviews, posted,
          todo, queue, calls, failed, dryrun, remargs, printed, ntries, start_reviews>>

---------------------------------------------------------------------------
(* Python values *)

\* the dict d as a set of keys
DictKeys(d) == {d[i][1] : i \in 1..Len(d)}

\* d[k] for a key that is present
DictGet(d, k) == d[CHOOSE i \in 1..Len(d) : d[i][1] = k][2]

\* a slip: a key that is present keeps its old value
DictSetKeepFirst(d, k, v) == IF k \in DictKeys(d) THEN d ELSE Append(d, <<k, v>>)

\* d[k] = v : an existing key keeps its position, a new key is appended
DictSet(d, k, v) ==
    IF k \in DictKeys(d)
    THEN [i \in 1..Len(d) |-> IF d[i][1] = k THEN <<k, v>> ELSE d[i]]
    ELSE Append(d, <<k, v>>)

\* d.keys() as a list in iteration order
KeyList(d) == [i \in 1..Len(d) |-> d[i][1]]

\* s[0:n]
Prefix(s, n) == SubSeq(s, 1, IF n < Len(s) THEN n ELSE Len(s))

\* the orders random.shuffle can leave the list s in
Shuffles(s) ==
    LET n == Len(s)
        idx == {f \in [1..n -> 1..n] : \A i, j \in 1..n : f[i] = f[j] => i = j}
    IN {[i \in 1..n |-> s[f[i]]] : f \in idx}

RECURSIVE SumSeq(_)
SumSeq(s) == IF s = <<>> THEN 0 ELSE Head(s) + SumSeq(Tail(s))


---------------------------------------------------------------------------
(* Questions: a question is the list of characters of one line of the      *)
(* question file, "<chapter>.<id>"                                         *)

Digits == {"0", "1", "2", "3", "4", "5", "6", "7", "8", "9"}

DigitVal(c) ==
    CASE c = "0" -> 0 [] c = "1" -> 1 [] c = "2" -> 2 [] c = "3" -> 3
      [] c = "4" -> 4 [] c = "5" -> 5 [] c = "6" -> 6 [] c = "7" -> 7
      [] c = "8" -> 8 [] c = "9" -> 9

\* x.split('.')[0]
BeforeDot(x) ==
    LET dots == {i \in 1..Len(x) : x[i] = "."}
        cut == IF dots = {} THEN Len(x) + 1
               ELSE CHOOSE i \in dots : \A j \in dots : i <= j
    IN SubSeq(x, 1, cut - 1)

RECURSIVE IntOf(_)
IntOf(s) == IF s = <<>> THEN 0 ELSE 10 * IntOf(SubSeq(s, 1, Len(s) - 1)) + DigitVal(s[Len(s)])

\* the result of int() when it raises ValueError
ValueError == -1

\* int(x.split('.')[0])
Chapter(x) ==
    LET s == BeforeDot(x)
    IN IF s = <<>> \/ \E i \in 1..Len(s) : s[i] \notin Digits THEN ValueError ELSE IntOf(s)

\* the chapter numbers of the first three shuffled questions
F3Chap(questions) == [i \in 1..Len(Prefix(questions, 3)) |-> Chapter(questions[i])]

---------------------------------------------------------------------------
(* make_interview *)

\* range(32)
Tries == 32
\* the tries that insist on three different chapters
StrictTries == 24

\* the first test of a try: the first three chapters are not pairwise different.
\* "raise" when a subscript is out of range.
SameChapterTest(f) ==
    IF Len(f) < 2 THEN "raise"
    ELSE IF f[1] = f[2] THEN "true"
    ELSE IF Len(f) < 3 THEN "raise"
    ELSE IF f[2] = f[3] \/ f[1] = f[3] THEN "true"
    ELSE "false"

\* a slip: the second test lets every triple through
NotAllSameTestAlways(f) == "true"

\* the second test of a try: sum(f3chap) != (3 * f3chap[0])
NotAllSameTest(f) ==
    IF Len(f) < 1 THEN "raise"
    ELSE IF SumSeq(f) # 3 * f[1] THEN "true"
    ELSE "false"

\* one pass of the loop body with the list shuffled into `questions`, in try
\* number it (0-based): "break", "continue" or "raise"
Attempt(questions, it) ==
    LET f == F3Chap(questions)
        second == CASE NotAllSameTest(f) = "raise" -> "raise"
                    [] NotAllSameTest(f) = "true" -> "break"
                    [] OTHER -> "continue"
    IN IF \E i \in 1..Len(f) : f[i] = ValueError THEN "raise"
       ELSE IF it < StrictTries
            THEN CASE SameChapterTest(f) = "raise" -> "raise"
                   [] SameChapterTest(f) = "true" -> "continue"
                   [] OTHER -> second
            ELSE second

\* try number it can be reached: every earlier try can end in "continue"
CanReach(questions, it) ==
    \A j \in 0..(it - 1) : \E p \in Shuffles(questions) : Attempt(p, j) = "continue"

\* how the loop of make_interview can end: the order it leaves the question
\* list in, and whether it raised
SelectRuns(questions) ==
    LET orders == Shuffles(questions)
        reach == {it \in 0..(Tries - 1) : CanReach(questions, it)}
    IN {[raised |-> FALSE, questions |-> p] :
            p \in {o \in orders : \E it \in reach :
                      \/ Attempt(o, it) = "break"
                      \/ it = Tries - 1 /\ Attempt(o, it) = "continue"}}
       \cup
       {[raised |-> TRUE, questions |-> p] :
            p \in {o \in orders : \E it \in reach : Attempt(o, it) = "raise"}}

\* a slip in the wrap-around test: the last but one position wraps too
IntervieweeWrapsEarly(ring, i) == IF i + 1 < Len(ring) THEN ring[i + 1] ELSE ring[1]

\* a slip: the last participant of the ring gets no interviewee
IntervieweeNoWrap(ring, i) == IF i + 1 <= Len(ring) THEN ring[i + 1] ELSE ""

\* interviewee: the participant after position i (1-based) of the ring
Interviewee(ring, i) == IF i + 1 <= Len(ring) THEN ring[i + 1] ELSE ring[1]

\* a slip in the wrap-around: the first position takes the first participant
RevInterviewerNoWrap(ring, i) == IF i > 1 THEN ring[i - 1] ELSE ring[1]

\* rev_interviewer: the participant before position i (1-based) of the ring
RevInterviewer(ring, i) == IF i > 1 THEN ring[i - 1] ELSE ring[Len(ring)]

\* a slip: the whole question list is returned instead of its first three
MakeInterviewAll(ring, i, questions) ==
    [interviewee |-> Interviewee(ring, i),
     rev_interviewer |-> RevInterviewer(ring, i),
     questions |-> questions]

\* the list make_interview returns, [interviewee, rev_interviewer] + questions[:3]
MakeInterview(ring, i, questions) ==
    [interviewee |-> Interviewee(ring, i),
     rev_interviewer |-> RevInterviewer(ring, i),
     questions |-> Prefix(questions, 3)]

---------------------------------------------------------------------------
(* assign_interviews *)

\* the empty line split('\n') yields after a final newline
BlankName == ""
BlankQuestion == <<>>

\* the list is rebound to a copy without its last element when that is blank
EndsBlank(l, blank) == Len(l) > 0 /\ l[Len(l)] = blank
StripBlank(l, blank) == IF EndsBlank(l, blank) THEN SubSeq(l, 1, Len(l) - 1) ELSE l

\* the dict the loop over the ring builds: interviews[ring[i]] = make_interview(...)
\* for the positions 1..n, with the question list as draws[i] left it
RECURSIVE RingDict(_, _, _)
RingDict(ring, draws, n) ==
    IF n = 0 THEN <<>>
    ELSE DictSet(RingDict(ring, draws, n - 1), ring[n],
                 MakeInterview(ring, n, draws[n].questions))

\* the runs of assign_interviews(interviewers, questions): whether it raised, the
\* dict it returns, and the caller's two lists afterwards (shuffled in place
\* unless a blank last element made the function work on a copy)
AssignRuns(callers_i, callers_q) ==
    LET stripped_i == StripBlank(callers_i, BlankName)
        stripped_q == StripBlank(callers_q, BlankQuestion)
        n == Len(stripped_i)
        runs == SelectRuns(stripped_q)
    IN {LET bad == {i \in 1..n : draws[i].raised}
            last == IF bad = {} THEN n ELSE CHOOSE i \in bad : \A j \in bad : i <= j
        IN [raised |-> bad # {},
            interviews |-> IF bad = {} THEN RingDict(ring, draws, n) ELSE <<>>,
            interviewers |-> IF EndsBlank(callers_i, BlankName) THEN callers_i ELSE ring,
            q |-> IF EndsBlank(callers_q, BlankQuestion) \/ last = 0
                  THEN callers_q ELSE draws[last].questions]
        : ring \in Shuffles(stripped_i), draws \in [1..n -> runs]}

---------------------------------------------------------------------------
(* Inputs *)

\* the active roster: login -> Canvas user id (fetch_active_students)
Roster == <<<<"ann", 1>>, <<"bob", 2>>, <<"cam", 3>>, <<"dan", 4>>>>

\* a login that is not on the roster
Ghost == "ghost"

Names == <<"ann", "bob", "cam", Ghost>>

\* the participant files: the names in file order, any of them left out
SubLists(s) ==
    {[i \in 1..Cardinality(keep) |->
        s[CHOOSE k \in keep : Cardinality({j \in keep : j < k}) = i - 1]]
     : keep \in SUBSET (1..Len(s))}

\* ... the file ending with a newline, and the short ones also with a blank
\* line and a newline
StudentFiles ==
    LET lists == SubLists(Names)
    IN lists \cup {Append(l, BlankName) : l \in lists}
             \cup {l \o <<BlankName, BlankName>> : l \in {x \in lists : Len(x) <= 1}}

Q11 == <<"1", ".", "1">>
Q12 == <<"1", ".", "2">>
Q13 == <<"1", ".", "3">>
Q21 == <<"2", ".", "1">>
Q31 == <<"3", ".", "1">>
Q41 == <<"4", ".", "1">>

\* question files for the ring: three chapters, two chapters, too few
\* questions, none, with and without the final newline, and with a blank
\* line before the final newline
RingQuestionFiles ==
    {<<Q11, Q21, Q41>>, <<Q11, Q12, Q21, BlankQuestion>>,
     <<Q11, Q12>>, <<Q11>>, <<BlankQuestion>>, <<>>,
     <<Q11, BlankQuestion, BlankQuestion>>}

---------------------------------------------------------------------------
(* Course: the roster, Grade, and the requests of the upload methods *)

\* None as a user id
NoId == 0

\* the two Canvas assignments: -a / --shuffle, and --feedback
Assessment == "assessment"
Feedback == "feedback"

\* login.lower(); the logins of the model are lower-case already
Lower(login) == login

\* Course.get_id_for_student: the roster is keyed by login + mail
GetIdForStudent(login) ==
    IF Lower(login) \in DictKeys(Roster) THEN DictGet(Roster, Lower(login)) ELSE NoId

\* Course.get_student_id: a dropped student (negative id) counts as unknown
GetStudentId(login) ==
    LET id == GetIdForStudent(login)
    IN IF id < 0 THEN NoId ELSE id

\* Course.student_email, as a login
StudentEmail(uid) ==
    IF \E i \in 1..Len(Roster) : Roster[i][2] = uid \/ -Roster[i][2] = uid
    THEN Roster[CHOOSE i \in 1..Len(Roster) : Roster[i][2] = uid \/ -Roster[i][2] = uid][1]
    ELSE "(unknown)"

\* Course.peer_review_user_link: '' or the page of the reviewee's submission
PeerReviewUserLink(assign_id, reviewee_uid) ==
    IF reviewee_uid = NoId \/ reviewee_uid < 0 THEN <<>> ELSE <<assign_id, reviewee_uid>>

\* the text of a comment: what it says, about whom, and the link in it
Message(kind, name, questions, other, link) ==
    [kind |-> kind, name |-> name, questions |-> questions, other |-> other, link |-> link]

\* Grade(): no points, no comments
NewGrade == [totalpoints |-> 0, comments |-> <<>>]

\* Grade.add(points, comment) with which = 0 and no penalty
GradeAdd(g, points, comment) ==
    [totalpoints |-> g.totalpoints + points,
     comments |-> IF g.comments = <<>> THEN <<comment>>
                  ELSE [g.comments EXCEPT ![1] = comment]]

\* Grade(points, comment)
GradeOf(points, comment) == GradeAdd(NewGrade, points, comment)

\* Grade.feedback(0, 0): the comments joined by newlines, <<>> for None
GradeFeedback(g) == g.comments

\* an HTTP request that changes the store
Request(kind, asg, user, assessors, data) ==
    [kind |-> kind, asg |-> asg, user |-> user, assessors |-> assessors, data |-> data]

\* an upload method still to be called by the command
Operation(op, asg, students, map, grades) ==
    [op |-> op, asg |-> asg, students |-> students, map |-> map, grades |-> grades]

\* Course.find_student_submission: every student on the roster has a
\* submission entry in every assignment, identified here by the user id
FindStudentSubmission(student_uid) ==
    IF \E i \in 1..Len(Roster) : Roster[i][2] = student_uid THEN student_uid ELSE NoId

\* Course.find_peer_reviewers: the assessors of the reviews assigned on uid's submission
FindPeerReviewers(uid, assign_id, revs) ==
    {r.assessor : r \in {x \in revs : x.asg = assign_id /\ x.user = uid}}

\* Course.batch_upload_grades(grades, 0, assign_id): one POST of all the comments
RECURSIVE GradeData(_, _)
GradeData(grades, n) ==
    IF n = 0 THEN <<>>
    ELSE LET feedback == GradeFeedback(grades[n][2])
         IN IF feedback # <<>>
            THEN Append(GradeData(grades, n - 1), <<grades[n][1], feedback>>)
            ELSE GradeData(grades, n - 1)

BatchUploadRequests(grades, assign_id) ==
    LET arglist == GradeData(grades, Len(grades))
    IN IF arglist = <<>> THEN <<>>
       ELSE <<Request("grades", assign_id, NoId, {}, arglist)>>

\* Course.add_peer_reviewers(reviewer_map, assign_id): one POST per entry of the
\* map whose student and reviewer are both on the roster
RECURSIVE AddPeerReviewersRequests(_, _, _)
AddPeerReviewersRequests(reviewer_map, n, assign_id) ==
    IF n = 0 THEN <<>>
    ELSE LET before == AddPeerReviewersRequests(reviewer_map, n - 1, assign_id)
             student_uid == GetStudentId(reviewer_map[n][1])
             reviewer_uid == GetStudentId(reviewer_map[n][2])
             sub_id == FindStudentSubmission(student_uid)
         IN IF student_uid = NoId \/ student_uid < 0 \/ reviewer_uid = NoId \/ reviewer_uid < 0
            THEN before
            ELSE IF sub_id = NoId THEN before
            ELSE Append(before, Request("add", assign_id, sub_id, {reviewer_uid}, <<>>))

\* Course.remove_peer_reviewers(students, assign_id) for a list of user ids: one
\* DELETE per student that has reviewers in the reviews fetched at the start
RECURSIVE RemovePeerReviewersRequests(_, _, _, _)
RemovePeerReviewersRequests(students, n, assign_id, revs) ==
    IF n = 0 THEN <<>>
    ELSE LET before == RemovePeerReviewersRequests(students, n - 1, assign_id, revs)
             student_uid == students[n]
             sub_id == FindStudentSubmission(student_uid)
             reviewers == FindPeerReviewers(student_uid, assign_id, revs)
         IN IF student_uid = NoId \/ student_uid < 0 THEN before
            ELSE IF sub_id = NoId THEN before
            ELSE IF reviewers = {} THEN before
            ELSE Append(before, Request("remove", assign_id, sub_id, reviewers, <<>>))

\* the requests an upload method issues, given the reviews it fetches first
Requests(o, revs) ==
    CASE o.op = "grades" -> BatchUploadRequests(o.grades, o.asg)
      [] o.op = "add" -> AddPeerReviewersRequests(o.map, Len(o.map), o.asg)
      [] o.op = "remove" -> RemovePeerReviewersRequests(o.students, Len(o.students), o.asg, revs)

\* the command goes on to its next upload method that has a request to issue
RECURSIVE Settle(_, _)
Settle(ops, revs) ==
    IF ops = <<>> THEN [todo |-> <<>>, queue |-> <<>>]
    ELSE IF Requests(Head(ops), revs) = <<>> THEN Settle(Tail(ops), revs)
    ELSE [todo |-> Tail(ops), queue |-> Requests(Head(ops), revs)]

---------------------------------------------------------------------------
(* The external store *)

Review(asg, user, assessor) == [asg |-> asg, user |-> user, assessor |-> assessor]

\* POST .../submissions/<id>/peer_reviews with user_id[]
StoreAdd(revs, r) == revs \cup {Review(r.asg, r.user, a) : a \in r.assessors}

\* DELETE .../submissions/<id>/peer_reviews with user_id[]
StoreRemove(revs, r) == revs \ {Review(r.asg, r.user, a) : a \in r.assessors}

\* POST .../submissions/update_grades with text comments
StoreComments(r) == {[asg |-> r.asg, uid |-> r.data[i][1], text |-> r.data[i][2]] : i \in 1..Len(r.data)}

---------------------------------------------------------------------------
(* The ring alone: assign_interviews called on the two lists *)

Idle ==
    /\ assessment_reviews = <<>> /\ feedback_reviews = <<>>
    /\ assessment_comments = <<>> /\ feedback_comments = <<>>
    /\ log = <<>> /\ reviews = {} /\ posted = {}
    /\ todo = <<>> /\ queue = <<>> /\ calls = <<>>
    /\ failed = FALSE /\ dryrun = FALSE /\ remargs = <<>> /\ printed = <<>>
    /\ ntries = 0
    /\ start_reviews = {}

InitRing ==
    /\ pc = "start"
    /\ interviewers \in StudentFiles
    /\ q \in RingQuestionFiles
    /\ interviews = <<>>
    /\ Idle

AssignInterviews ==
    /\ pc = "start"
    /\ \E run \in AssignRuns(interviewers, q) :
          /\ pc' = IF run.raised THEN "raised" ELSE "assigned"
          /\ interviews' = run.interviews
          /\ interviewers' = run.interviewers
          /\ q' = run.q
    /\ UNCHANGED <<assessment_reviews, feedback_reviews, assessment_comments,
                   feedback_comments, log, reviews, posted, todo, queue, calls,
                   failed, dryrun, remargs, printed, ntries, start_reviews>>

NextRing == AssignInterviews

SpecRing == InitRing /\ [][NextRing]_vars

---------------------------------------------------------------------------
(* make_interview alone: one call, one try of its loop at a time *)

\* the question lists handed to make_interview: three chapters, one chapter,
\* two chapters, four questions, and lists of fewer than three questions
InterviewQuestionFiles ==
    {<<Q11, Q21, Q31>>, <<Q11, Q21, Q41>>, <<Q11, Q12, Q13>>, <<Q11, Q12, Q21>>,
     <<Q11, Q12, Q21, Q31>>, <<Q11, Q12>>, <<Q11>>, <<>>}

\* the ring and the position (0-based i = 1) the call is made for
InterviewRing == <<"ann", "bob", "cam">>
InterviewPosition == 2

InitInterview ==
    /\ pc = "start"
    /\ interviewers = InterviewRing
    /\ q \in InterviewQuestionFiles
    /\ interviews = <<>>
    /\ Idle

\* one pass of the loop body: shuffle, then continue, break or raise; the
\* return statement is taken with the pass that ends the loop
Try ==
    /\ pc \in {"start", "loop"}
    /\ ntries < Tries
    /\ \E questions \in Shuffles(q) :
          LET outcome == Attempt(questions, ntries)
              result == <<<<interviewers[InterviewPosition],
                            MakeInterview(interviewers, InterviewPosition, questions)>>>>
          IN /\ q' = questions
             /\ ntries' = ntries + 1
             /\ pc' = CASE outcome = "raise" -> "raised"
                        [] outcome = "break" -> "accepted"
                        [] outcome = "continue" /\ ntries + 1 = Tries -> "exhausted"
                        [] OTHER -> "loop"
             /\ interviews' = IF outcome = "break" \/ (outcome = "continue" /\ ntries + 1 = Tries)
                              THEN result ELSE interviews
    /\ UNCHANGED <<interviewers, assessment_reviews, feedback_reviews, assessment_comments,
                   feedback_comments, log, reviews, posted, todo, queue, calls,
                   failed, dryrun, remargs, printed, start_reviews>>

NextInterview == Try

SpecInterview == InitInterview /\ [][NextInterview]_vars

\* the loop runs on until it is left
SpecInterviewFair == SpecInterview /\ WF_vars(Try)

---------------------------------------------------------------------------
(* HTTP: Course.post and Course.delete, one request at a time *)

\* an issued request, with whether the server accepted it
Call(r, ok) == [req |-> r, ok |-> ok]

\* after the head of the queue is dealt with: the rest of the queue, or the
\* next upload method with the reviews as the store now has them
Proceed(revs) ==
    LET next == IF Tail(queue) # <<>> THEN [todo |-> todo, queue |-> Tail(queue)]
                ELSE Settle(todo, revs)
    IN /\ todo' = next.todo
       /\ queue' = next.queue
       /\ pc' = IF next.queue = <<>> THEN "done" ELSE "uploading"

\* the head request is answered: accepted, or refused with an HTTPError that
\* post and delete print and swallow; under dryrun it is not sent at all
Issue(kind) ==
    /\ pc = "uploading"
    /\ queue # <<>>
    /\ Head(queue).kind = kind
    /\ UNCHANGED <<interviewers, q, interviews, assessment_reviews, feedback_reviews,
                   assessment_comments, feedback_comments, log, dryrun, remargs,
                   printed, ntries, start_reviews>>

Accepted(r) ==
    /\ ~dryrun
    /\ calls' = Append(calls, Call(r, TRUE))
    /\ failed' = failed

Refused(r) ==
    /\ ~dryrun
    /\ ~failed
    /\ calls' = Append(calls, Call(r, FALSE))
    /\ failed' = TRUE

\* a slip: the dry run sends the request all the same
NotSentButIssued ==
    /\ dryrun
    /\ calls' = Append(calls, Call(Head(queue), TRUE))
    /\ UNCHANGED <<failed, reviews, posted>>

NotSent ==
    /\ dryrun
    /\ UNCHANGED <<calls, failed, reviews, posted>>

\* Course.add_peer_reviewer_to_submission
AddPeerReviewerToSubmission ==
    /\ Issue("add")
    /\ \/ /\ Accepted(Head(queue))
          /\ reviews' = StoreAdd(reviews, Head(queue))
          /\ posted' = posted
          /\ Proceed(reviews')
       \/ /\ Refused(Head(queue))
          /\ UNCHANGED <<reviews, posted>>
          /\ Proceed(reviews)
       \/ /\ NotSent
          /\ Proceed(reviews)

\* Course.remove_peer_reviewer_from_submission
RemovePeerReviewerFromSubmission ==
    /\ Issue("remove")
    /\ \/ /\ Accepted(Head(queue))
          /\ reviews' = StoreRemove(reviews, Head(queue))
          /\ posted' = posted
          /\ Proceed(reviews')
       \/ /\ Refused(Head(queue))
          /\ UNCHANGED <<reviews, posted>>
          /\ Proceed(reviews)
       \/ /\ NotSent
          /\ Proceed(reviews)

\* the POST of Course.batch_upload_grades; when it is refused post returns
\* None and batch_upload_grades raises CanvasException, which ends the command
BatchUploadGrades ==
    /\ Issue("grades")
    /\ \/ /\ Accepted(Head(queue))
          /\ posted' = posted \cup StoreComments(Head(queue))
          /\ reviews' = reviews
          /\ Proceed(reviews)
       \/ /\ Refused(Head(queue))
          /\ UNCHANGED <<reviews, posted>>
          /\ pc' = "raised"
          /\ todo' = <<>>
          /\ queue' = <<>>
       \/ /\ NotSent
          /\ Proceed(reviews)

---------------------------------------------------------------------------
(* make_shuffle *)

\* a slip: the questions are left out of the log line
LogLineNoQuestions(kind, interviewer, interviewee, questions) ==
    [kind |-> kind, interviewer |-> interviewer, interviewee |-> interviewee,
     questions |-> <<>>]

LogLine(kind, interviewer, interviewee, questions) ==
    [kind |-> kind, interviewer |-> interviewer, interviewee |-> interviewee,
     questions |-> questions]

\* a slip: the assessment relation keyed like the feedback relation
AssessmentEntryByInterviewer(reviewer_map, interviewer, interviewee) ==
    DictSet(reviewer_map, interviewer, interviewee)

\* assessment_reviews[interviewee] = interviewer
AssessmentEntry(reviewer_map, interviewer, interviewee) ==
    DictSet(reviewer_map, interviewee, interviewer)

\* feedback_reviews[interviewer] = interviewee
FeedbackEntry(reviewer_map, interviewer, interviewee) ==
    DictSet(reviewer_map, interviewer, interviewee)

\* the first n passes of the loop over interviews.items()
RECURSIVE ShuffleLoop(_, _)
ShuffleLoop(ivs, n) ==
    IF n = 0
    THEN [log |-> <<>>, assessment_reviews |-> <<>>, feedback_reviews |-> <<>>,
          grades |-> <<>>, feedback_links |-> <<>>]
    ELSE LET acc == ShuffleLoop(ivs, n - 1)
             interviewer == ivs[n][1]
             iview == ivs[n][2]
             interviewee == iview.interviewee
             rev_interviewer == iview.rev_interviewer
             uid == GetIdForStudent(interviewer)
             interviewer_uid == GetIdForStudent(rev_interviewer)
             fb_link == PeerReviewUserLink(Feedback, interviewer_uid)
         IN [log |-> Append(acc.log, LogLine("pairing", interviewer, interviewee, iview.questions)),
             assessment_reviews |-> AssessmentEntry(acc.assessment_reviews, interviewer, interviewee),
             feedback_reviews |-> FeedbackEntry(acc.feedback_reviews, interviewer, interviewee),
             grades |->
                 IF uid # NoId /\ uid > 0
                 THEN DictSet(acc.grades, uid,
                              GradeOf(0, Message("interview", interviewee, iview.questions,
                                                 rev_interviewer, fb_link)))
                 ELSE acc.grades,
             feedback_links |->
                 IF Len(fb_link) > 0
                 THEN DictSet(acc.feedback_links, uid,
                              GradeOf(0, Message("interviewed_by", rev_interviewer, <<>>,
                                                 "", fb_link)))
                 ELSE acc.feedback_links]

\* the passes the loop completes: formatting the log line of an entry with
\* fewer than three questions raises IndexError
ShufflePasses(ivs) ==
    LET short == {i \in 1..Len(ivs) : Len(ivs[i][2].questions) < 3}
    IN IF short = {} THEN Len(ivs) ELSE (CHOOSE i \in short : \A j \in short : i <= j) - 1

\* the uploads at the end of make_shuffle, in call order (the upload of
\* assessment_reviews is commented out in the source)
ShuffleUploads(built) ==
    <<Operation("grades", Assessment, <<>>, <<>>, built.grades),
      Operation("add", Feedback, <<>>, built.feedback_reviews, <<>>),
      Operation("grades", Feedback, <<>>, <<>>, built.feedback_links)>>

\* make_shuffle up to its first request
MakeShuffle ==
    /\ pc = "start"
    /\ \E run \in AssignRuns(interviewers, q) :
          LET n == ShufflePasses(run.interviews)
              built == ShuffleLoop(run.interviews, n)
              header == LogLine("header", "", "", <<>>)
              next == Settle(ShuffleUploads(built), reviews)
          IN /\ interviewers' = run.interviewers
             /\ q' = run.q
             /\ interviews' = run.interviews
             /\ IF run.raised
                THEN /\ pc' = "raised"
                     /\ UNCHANGED <<assessment_reviews, feedback_reviews, assessment_comments,
                                    feedback_comments, log, todo, queue>>
                ELSE /\ log' = log \o <<header>> \o built.log
                     /\ assessment_reviews' = built.assessment_reviews
                     /\ feedback_reviews' = built.feedback_reviews
                     /\ assessment_comments' = built.grades
                     /\ feedback_comments' = built.feedback_links
                     /\ IF n < Len(run.interviews)
                        THEN pc' = "raised" /\ UNCHANGED <<todo, queue>>
                        ELSE /\ todo' = next.todo
                             /\ queue' = next.queue
                             /\ pc' = IF next.queue = <<>> THEN "done" ELSE "uploading"
    /\ UNCHANGED <<reviews, posted, calls, failed, dryrun, remargs, printed, ntries,
                   start_reviews>>

\* the reviews a ring leaves in the store: the feedback relation as make_shuffle
\* uploads it, and the assessment relation when it has been installed as well
RECURSIVE ApplyAll(_, _)
ApplyAll(revs, requests) ==
    IF requests = <<>> THEN revs ELSE ApplyAll(StoreAdd(revs, Head(requests)), Tail(requests))

RingStore(ring, with_assessment) ==
    LET built == ShuffleLoop(RingDict(ring, [i \in 1..Len(ring) |-> [questions |-> <<Q11, Q21, Q41>>]],
                                      Len(ring)), Len(ring))
        fb == AddPeerReviewersRequests(built.feedback_reviews, Len(ring), Feedback)
        as == AddPeerReviewersRequests(built.assessment_reviews, Len(ring), Assessment)
    IN ApplyAll({}, IF with_assessment THEN fb \o as ELSE fb)

\* the ring of an earlier scheduling run
EarlierRing == <<"ann", "bob", "cam">>

\* what assignments.log holds before the run: the header line of an earlier one
OldLog == <<LogLine("header", "", "", <<>>)>>

\* the lists make_shuffle reads: the participants from a file of at most
\* three names, the questions from a file
ShuffleStudentLists == {l \in SubLists(Names) : Len(l) <= 3}

ShuffleQuestionFiles == {<<Q11, Q21, Q41>>}

Init ==
    /\ pc = "start"
    /\ interviewers \in ShuffleStudentLists
    /\ q \in ShuffleQuestionFiles
    /\ interviews = <<>>
    /\ assessment_reviews = <<>> /\ feedback_reviews = <<>>
    /\ assessment_comments = <<>> /\ feedback_comments = <<>>
    /\ log = OldLog /\ posted = {}
    /\ reviews \in {{}, RingStore(EarlierRing, FALSE)}
    /\ todo = <<>> /\ queue = <<>> /\ calls = <<>>
    /\ failed = FALSE /\ dryrun \in BOOLEAN /\ remargs = <<>> /\ printed = <<>>
    /\ ntries = 0
    /\ start_reviews = reviews

Next ==
    \/ MakeShuffle
    \/ AddPeerReviewerToSubmission
    \/ BatchUploadGrades

Spec == Init /\ [][Next]_vars

---------------------------------------------------------------------------
(* reassign *)

\* a slip: the comment is dropped instead of stored
AddCommentDropped(comments, uid, comment) == comments

\* assessment_comments[uid].add(0, comment), with a new Grade() for a uid
\* that has none yet
AddComment(comments, uid, comment) ==
    LET g == IF uid \in DictKeys(comments) THEN DictGet(comments, uid) ELSE NewGrade
    IN DictSet(comments, uid, GradeAdd(g, 0, comment))

\* a slip: only the interviewer is looked up before the override is stored
NotFoundInterviewerOnly(interviewer_uid, interviewee_uid) ==
    interviewer_uid = NoId \/ interviewer_uid < 0

\* the two tests that skip an override: 'Interviewer not found', 'Interviewee
\* not found'
NotFound(interviewer_uid, interviewee_uid) ==
    \/ interviewer_uid = NoId \/ interviewer_uid < 0
    \/ interviewee_uid = NoId \/ interviewee_uid < 0

\* a line printed for a skipped override: the text, and the name put in it
Report(text, name) == [text |-> text, name |-> name]

\* the print before each continue
NotFoundReport(interviewer, interviewee, interviewer_uid, interviewee_uid) ==
    IF interviewer_uid = NoId \/ interviewer_uid < 0
    THEN Report("Interviewer not found", interviewer)
    ELSE Report("Interviewee not found", interviewer)

\* the first n passes of the loop over remargs; an argument
\* "interviewer:interviewee" is the pair <<interviewer, interviewee>>
RECURSIVE ReassignLoop(_, _)
ReassignLoop(args, n) ==
    IF n = 0
    THEN [interviewers |-> <<>>, assessment_comments |-> <<>>, feedback_comments |-> <<>>,
          assessment_reviews |-> <<>>, feedback_reviews |-> <<>>, printed |-> <<>>]
    ELSE LET acc == ReassignLoop(args, n - 1)
             interviewer == args[n][1]
             interviewee == args[n][2]
             interviewer_uid == GetStudentId(interviewer)
             interviewee_uid == GetStudentId(interviewee)
             fb_link == PeerReviewUserLink(Feedback, interviewer_uid)
             new_interviewer_comment == Message("new_interviewer", interviewer, <<>>, "", fb_link)
             new_interviewee_comment == Message("new_interviewee", interviewee, <<>>, "", <<>>)
         IN IF NotFound(interviewer_uid, interviewee_uid)
            THEN [acc EXCEPT !.printed =
                      Append(@, NotFoundReport(interviewer, interviewee,
                                               interviewer_uid, interviewee_uid))]
            ELSE [interviewers |-> DictSet(acc.interviewers, interviewer_uid, interviewer),
                  printed |-> acc.printed,
                  assessment_reviews |-> DictSet(acc.assessment_reviews, interviewee, interviewer),
                  feedback_reviews |-> DictSet(acc.feedback_reviews, interviewer, interviewee),
                  assessment_comments |->
                      AddComment(AddComment(acc.assessment_comments, interviewee_uid,
                                            new_interviewer_comment),
                                 interviewer_uid, new_interviewee_comment),
                  feedback_comments |->
                      DictSet(acc.feedback_comments, interviewee_uid,
                              GradeOf(0, Message("reassigned", interviewer, <<>>, "", fb_link)))]

\* a slip: the new reviewers are installed before the old ones are removed
ReassignUploadsAddFirst(built) ==
    <<Operation("add", Assessment, <<>>, built.assessment_reviews, <<>>),
      Operation("remove", Assessment, KeyList(built.feedback_comments), <<>>, <<>>),
      Operation("grades", Assessment, <<>>, <<>>, built.assessment_comments),
      Operation("add", Feedback, <<>>, built.feedback_reviews, <<>>),
      Operation("remove", Feedback, KeyList(built.interviewers), <<>>, <<>>),
      Operation("grades", Feedback, <<>>, <<>>, built.feedback_comments)>>

\* a slip: the two removals take each other's list of students
ReassignUploadsWrongKeys(built) ==
    <<Operation("remove", Assessment, KeyList(built.interviewers), <<>>, <<>>),
      Operation("add", Assessment, <<>>, built.assessment_reviews, <<>>),
      Operation("grades", Assessment, <<>>, <<>>, built.assessment_comments),
      Operation("remove", Feedback, KeyList(built.feedback_comments), <<>>, <<>>),
      Operation("add", Feedback, <<>>, built.feedback_reviews, <<>>),
      Operation("grades", Feedback, <<>>, <<>>, built.feedback_comments)>>

\* a slip: only the first student of each list has the old reviewers removed
ReassignUploadsFirstOnly(built) ==
    <<Operation("remove", Assessment, Prefix(KeyList(built.feedback_comments), 1), <<>>, <<>>),
      Operation("add", Assessment, <<>>, built.assessment_reviews, <<>>),
      Operation("grades", Assessment, <<>>, <<>>, built.assessment_comments),
      Operation("remove", Feedback, Prefix(KeyList(built.interviewers), 1), <<>>, <<>>),
      Operation("add", Feedback, <<>>, built.feedback_reviews, <<>>),
      Operation("grades", Feedback, <<>>, <<>>, built.feedback_comments)>>

\* the uploads at the end of reassign, in call order
ReassignUploads(built) ==
    <<Operation("remove", Assessment, KeyList(built.feedback_comments), <<>>, <<>>),
      Operation("add", Assessment, <<>>, built.assessment_reviews, <<>>),
      Operation("grades", Assessment, <<>>, <<>>, built.assessment_comments),
      Operation("remove", Feedback, KeyList(built.interviewers), <<>>, <<>>),
      Operation("add", Feedback, <<>>, built.feedback_reviews, <<>>),
      Operation("grades", Feedback, <<>>, <<>>, built.feedback_comments)>>

\* reassign up to its first request; without arguments it returns at once
Reassign ==
    /\ pc = "start"
    /\ LET built == ReassignLoop(remargs, Len(remargs))
           next == IF remargs = <<>> THEN [todo |-> <<>>, queue |-> <<>>]
                   ELSE Settle(ReassignUploads(built), reviews)
       IN /\ assessment_reviews' = built.assessment_reviews
          /\ feedback_reviews' = built.feedback_reviews
          /\ assessment_comments' = built.assessment_comments
          /\ feedback_comments' = built.feedback_comments
          /\ printed' = built.printed
          /\ todo' = next.todo
          /\ queue' = next.queue
          /\ pc' = IF next.queue = <<>> THEN "done" ELSE "uploading"
    /\ UNCHANGED <<interviewers, q, interviews, log, reviews, posted, calls, failed,
                   dryrun, remargs, ntries, start_reviews>>

\* the longest list of overrides given to reassign in the model
MaxBatch == 2

RosterNames == DictKeys(Roster)

\* the overrides "interviewer:interviewee" given to reassign: a new pairing,
\* others with the same interviewer, the same interviewee, the roles swapped,
\* one that continues it, one with no student in common, the pairing the
\* store holds already, a student paired with herself, and one with an
\* unknown interviewer and one with an unknown interviewee
Overrides ==
    {<<"ann", "cam">>, <<"ann", "bob">>, <<"dan", "cam">>, <<"cam", "ann">>,
     <<"cam", "bob">>, <<"dan", "bob">>, <<"bob", "cam">>, <<"ann", "ann">>,
     <<Ghost, "bob">>, <<"ann", Ghost>>}

Batches == UNION {[1..n -> Overrides] : n \in 0..MaxBatch}

\* the ring whose pairings the store holds when reassign is run
StoredRing == <<"bob", "cam", "ann", "dan">>

InitReassign ==
    /\ pc = "start"
    /\ remargs \in Batches
    /\ reviews \in {RingStore(StoredRing, TRUE), RingStore(StoredRing, FALSE)}
    /\ dryrun \in BOOLEAN
    /\ interviewers = <<>> /\ q = <<>> /\ interviews = <<>>
    /\ assessment_reviews = <<>> /\ feedback_reviews = <<>>
    /\ assessment_comments = <<>> /\ feedback_comments = <<>>
    /\ log = <<>> /\ posted = {}
    /\ todo = <<>> /\ queue = <<>> /\ calls = <<>>
    /\ failed = FALSE /\ printed = <<>> /\ ntries = 0
    /\ start_reviews = reviews

NextReassign ==
    \/ Reassign
    \/ RemovePeerReviewerFromSubmission
    \/ AddPeerReviewerToSubmission
    \/ BatchUploadGrades

SpecReassign == InitReassign /\ [][NextReassign]_vars

---------------------------------------------------------------------------
(* Properties of the ring *)

\* the participants handed to assign_interviews, blank last line dropped
Participants == {interviewers[i] : i \in 1..Len(StripBlank(interviewers, BlankName))}

IntervieweeOf(p) == DictGet(interviews, p).interviewee
MyInterviewerOf(p) == DictGet(interviews, p).rev_interviewer

\* the participant reached from p by following k interviewee links
RECURSIVE Follow(_, _)
Follow(p, k) == IF k = 0 THEN p ELSE IntervieweeOf(Follow(p, k - 1))

Returned == pc = "assigned" /\ Cardinality(Participants) >= 2

\* C1: for a duplicate-free participant list of size N >= 2, the interviewee
\* function of the mapping assign_interviews returns is one N-cycle over the
\* participants: its keys are the participants, nobody is their own
\* interviewee, and following the interviewee links from any participant
\* visits all N participants before it returns to the start.
C1_SingleCycle ==
    Returned =>
        LET n == Cardinality(Participants)
        IN /\ DictKeys(interviews) = Participants
           /\ \A p \in Participants :
                 /\ IntervieweeOf(p) \in Participants
                 /\ IntervieweeOf(p) # p
                 /\ {Follow(p, k) : k \in 0..(n - 1)} = Participants
                 /\ Follow(p, n) = p

C1_Witness == pc = "assigned" /\ Len(interviews) = 4

\* C2: for N >= 2 every participant occurs exactly once as a key, exactly
\* once as an interviewee and exactly once as a myInterviewer, myInterviewer
\* is the inverse of interviewee, and at every ring position i (0-based) the
\* entry holds ring[(i+1) mod N] and ring[(i-1+N) mod N].
C2_RingEntries ==
    Returned =>
        LET n == Cardinality(Participants)
            ring == KeyList(interviews)
        IN /\ Len(ring) = n
           /\ \A p \in Participants :
                 /\ Cardinality({i \in 1..Len(ring) : ring[i] = p}) = 1
                 /\ Cardinality({i \in 1..Len(ring) : interviews[i][2].interviewee = p}) = 1
                 /\ Cardinality({i \in 1..Len(ring) : interviews[i][2].rev_interviewer = p}) = 1
                 /\ MyInterviewerOf(IntervieweeOf(p)) = p
           /\ \A i \in 0..(n - 1) :
                 /\ interviews[i + 1][2].interviewee = ring[((i + 1) % n) + 1]
                 /\ interviews[i + 1][2].rev_interviewer = ring[((i - 1 + n) % n) + 1]

C2_Witness ==
    /\ pc = "assigned"
    /\ KeyList(interviews) = <<"bob", "cam", "ann">>
    /\ IntervieweeOf("bob") = "cam"
    /\ MyInterviewerOf("bob") = "ann"

---------------------------------------------------------------------------
(* Properties of make_shuffle *)

\* make_shuffle has completed its loop over the interviews
Built == pc \in {"uploading", "done", "raised"} /\ Len(log) = Len(OldLog) + Len(interviews) + 1

\* the dict d as a set of <<key, value>> pairs
Pairs(d) == {d[i] : i \in 1..Len(d)}

\* C3: for a ring r of N >= 2 participants, feedback_reviews maps r[i] to
\* r[(i+1) mod N] and assessment_reviews maps r[(i+1) mod N] to r[i] for every
\* position i, so assessment_reviews is exactly the inverse of feedback_reviews.
C3_RelationsAreProjections ==
    (Built /\ Len(interviews) >= 2) =>
        LET ring == KeyList(interviews)
            n == Len(ring)
        IN /\ Pairs(feedback_reviews) = {<<ring[i + 1], ring[((i + 1) % n) + 1]>> : i \in 0..(n - 1)}
           /\ Pairs(assessment_reviews) = {<<ring[((i + 1) % n) + 1], ring[i + 1]>> : i \in 0..(n - 1)}
           /\ Pairs(assessment_reviews) = {<<p[2], p[1]>> : p \in Pairs(feedback_reviews)}

C3_Witness ==
    /\ Built
    /\ KeyList(interviews) = <<"bob", "cam", "ann">>
    /\ Pairs(assessment_reviews) = {<<"cam", "bob">>, <<"ann", "cam">>, <<"bob", "ann">>}
    /\ Pairs(feedback_reviews) = {<<"bob", "cam">>, <<"cam", "ann">>, <<"ann", "bob">>}

\* a dict that gives every participant exactly one value, a participant
TotalFunction(d) ==
    /\ DictKeys(d) = Participants
    /\ \A p \in Participants :
          /\ Cardinality({i \in 1..Len(d) : d[i][1] = p}) = 1
          /\ DictGet(d, p) \in Participants

\* C4: the assessment relation and the feedback relation make_shuffle builds
\* from one ring are each total, single-valued functions over the participants.
C4_RelationsAreTotalFunctions ==
    Built => TotalFunction(assessment_reviews) /\ TotalFunction(feedback_reviews)

C4_Witness ==
    /\ Built
    /\ Len(interviews) = 3
    /\ Ghost \in DictKeys(assessment_reviews)
    /\ Cardinality(DictKeys(feedback_reviews)) = 3

\* every participant of the run is on the roster
Resolvable == \A p \in Participants : GetIdForStudent(p) # NoId

\* the store has the assessor as assigned reviewer of the user's submission
Reviewing(asg, user, assessor) ==
    Review(asg, GetIdForStudent(user), GetIdForStudent(assessor)) \in reviews

\* C5: after a make_shuffle run over a resolvable roster in which every upload
\* call succeeds, the store holds both relations: every interviewer is reviewer
\* on the interviewee's assessment submission and every interviewee is reviewer
\* on the interviewer's feedback submission.
C5_BothRelationsUploaded ==
    (pc = "done" /\ Built /\ Len(interviews) >= 2 /\ ~dryrun /\ ~failed /\ Resolvable) =>
        \A i \in 1..Len(interviews) :
            /\ Reviewing(Assessment, interviews[i][2].interviewee, interviews[i][1])
            /\ Reviewing(Feedback, interviews[i][1], interviews[i][2].interviewee)

---------------------------------------------------------------------------
(* Properties of reassign *)

SameSubmission(r1, r2) == r1.asg = r2.asg /\ r1.user = r2.user

\* C6: in a reassignment run, on every submission the call that removes the
\* stale reviewer link is issued strictly before the call that installs the new
\* one: when an install is about to be issued the removal of every reviewer
\* still assigned on that submission has been issued already, and no removal
\* on a submission follows an install on it.
C6_RemoveBeforeInstall ==
    /\ (pc = "uploading" /\ ~dryrun /\ Head(queue).kind = "add") =>
          \A r \in reviews :
              (r.asg = Head(queue).asg /\ r.user = Head(queue).user) =>
                  \E i \in 1..Len(calls) :
                      /\ calls[i].req.kind = "remove"
                      /\ SameSubmission(calls[i].req, Head(queue))
                      /\ r.assessor \in calls[i].req.assessors
    /\ \A i, j \in 1..Len(calls) :
          (/\ calls[i].req.kind = "remove"
           /\ calls[j].req.kind = "add"
           /\ SameSubmission(calls[i].req, calls[j].req)) => i < j

\* override ann:cam when bob was cam's interviewer: bob's review link on
\* cam's assessment submission is removed, then ann's is installed
C6_Witness ==
    \E i, j \in 1..Len(calls) :
        /\ i < j
        /\ calls[i] = Call(Request("remove", Assessment, 3, {2}, <<>>), TRUE)
        /\ calls[j] = Call(Request("add", Assessment, 3, {1}, <<>>), TRUE)

Submissions == {Assessment, Feedback} \X {Roster[i][2] : i \in 1..Len(Roster)}

\* C7: every state during and after a reassignment run, also one in which a
\* remove or install call fails, has at most one assigned reviewer on every
\* submission of the two assignments.
C7_SingleReviewer ==
    \A sub \in Submissions : Cardinality(FindPeerReviewers(sub[2], sub[1], reviews)) <= 1

\* the overrides of the batch whose two identities are on the roster
Known(pair) == GetStudentId(pair[1]) # NoId /\ GetStudentId(pair[2]) # NoId
ResolvedArgs == SelectSeq(remargs, Known)

\* the pairing the store held for a student before the run
PreviousInterviewee(p) ==
    Interviewee(StoredRing, CHOOSE i \in 1..Len(StoredRing) : StoredRing[i] = p)
PreviousInterviewer(p) ==
    RevInterviewer(StoredRing, CHOOSE i \in 1..Len(StoredRing) : StoredRing[i] = p)

Succeeded == pc = "done" /\ ~dryrun /\ ~failed

\* C8: after a reassignment run applies a resolved override (R, E) to a store
\* populated by a ring, no stale link remains: R is no longer reviewer on the
\* assessment submission of R's previous interviewee, E is no longer reviewer
\* on the feedback submission of E's previous interviewer (unless an override
\* of the batch asks for that very pairing), and the reviewers of every
\* submission no override names are unchanged.
C8_NoStaleLinks ==
    Succeeded =>
        /\ \A k \in 1..Len(ResolvedArgs) :
              LET R == ResolvedArgs[k][1]
                  E == ResolvedArgs[k][2]
              IN /\ (\A m \in 1..Len(ResolvedArgs) : ResolvedArgs[m] # <<R, PreviousInterviewee(R)>>)
                        => ~Reviewing(Assessment, PreviousInterviewee(R), R)
                 /\ (\A m \in 1..Len(ResolvedArgs) : ResolvedArgs[m] # <<PreviousInterviewer(E), E>>)
                        => ~Reviewing(Feedback, PreviousInterviewer(E), E)
        /\ \A p \in RosterNames :
              /\ (\A k \in 1..Len(ResolvedArgs) : ResolvedArgs[k][2] # p) =>
                    FindPeerReviewers(GetStudentId(p), Assessment, reviews)
                        = FindPeerReviewers(GetStudentId(p), Assessment, start_reviews)
              /\ (\A k \in 1..Len(ResolvedArgs) : ResolvedArgs[k][1] # p) =>
                    FindPeerReviewers(GetStudentId(p), Feedback, reviews)
                        = FindPeerReviewers(GetStudentId(p), Feedback, start_reviews)

\* the calls of a run of the upload methods `ops` in which every request is
\* accepted, from the store revs
RECURSIVE AcceptedCalls(_, _)
AcceptedCalls(ops, revs) ==
    IF ops = <<>> THEN <<>>
    ELSE LET reqs == Requests(Head(ops), revs)
             after == IF Head(ops).op = "remove"
                      THEN revs \ UNION {{Review(r.asg, r.user, a) : a \in r.assessors} :
                                            r \in {reqs[i] : i \in 1..Len(reqs)}}
                      ELSE ApplyAll(revs, IF Head(ops).op = "add" THEN reqs ELSE <<>>)
         IN [i \in 1..Len(reqs) |-> Call(reqs[i], TRUE)] \o AcceptedCalls(Tail(ops), after)

IsPrefix(s, t) == Len(s) <= Len(t) /\ s = SubSeq(t, 1, Len(s))

\* C9: an override with an unresolved identity has no effect and does not stop
\* the batch: the removals, installs and comment posts reassign issues are
\* exactly those of the batch without its unresolved overrides.
C9_UnresolvedOverrideSkipped ==
    (pc # "start" /\ ~dryrun /\ ~failed) =>
        LET expected == IF ResolvedArgs = <<>> THEN <<>>
                        ELSE AcceptedCalls(ReassignUploads(ReassignLoop(ResolvedArgs, Len(ResolvedArgs))),
                                           start_reviews)
        IN /\ IsPrefix(calls, expected)
           /\ pc = "done" => calls = expected

C9_Witness ==
    /\ Succeeded
    /\ remargs = <<<<Ghost, "bob">>, <<"ann", "cam">>>>
    /\ Len(calls) = 6

\* override k of the resolved batch is superseded: a later one names the same
\* interviewer or the same interviewee
Superseded(k) ==
    \E m \in (k + 1)..Len(ResolvedArgs) :
        ResolvedArgs[m][1] = ResolvedArgs[k][1] \/ ResolvedArgs[m][2] = ResolvedArgs[k][2]

Touched == {GetStudentId(ResolvedArgs[k][i]) : k \in 1..Len(ResolvedArgs), i \in 1..2}

\* the participants a comment has been posted for, on either assignment
Notified == {c.uid : c \in posted}

\* C11: in a reassignment run a notification is posted only for participants
\* that a resolved override names as interviewer or interviewee, and after a
\* run whose calls all succeed the participants notified are exactly those.
C11_OnlyTouchedNotified ==
    /\ Notified \subseteq Touched
    /\ Succeeded => Notified = Touched

\* override ann:cam : ann and cam are notified, bob is not
C11_Witness ==
    /\ Succeeded
    /\ remargs = <<<<"ann", "cam">>>>
    /\ Notified = {1, 3}
    /\ \E c \in posted : c.asg = Feedback /\ c.uid = 3

\* the store after the upload methods `ops` have run from the store revs with
\* every request accepted
RECURSIVE AcceptedStore(_, _)
AcceptedStore(ops, revs) ==
    IF ops = <<>> THEN revs
    ELSE LET reqs == Requests(Head(ops), revs)
             after == CASE Head(ops).op = "remove" ->
                             revs \ UNION {{Review(r.asg, r.user, a) : a \in r.assessors} :
                                              r \in {reqs[i] : i \in 1..Len(reqs)}}
                        [] Head(ops).op = "add" -> ApplyAll(revs, reqs)
                        [] OTHER -> revs
         IN AcceptedStore(Tail(ops), after)

\* the store after reassign has run with the overrides args from the store
\* revs, every request accepted
ReassignStore(args, revs) ==
    IF args = <<>> THEN revs
    ELSE AcceptedStore(ReassignUploads(ReassignLoop(args, Len(args))), revs)

Independent(x, y) ==
    /\ Known(x) /\ Known(y)
    /\ Cardinality({x[1], x[2], y[1], y[2]}) = 4

\* C13: for two independent overrides the final state of both review
\* relations is the same whether they are applied in one batch in either
\* order or in two successive runs in either order.
C13_IndependentCommute ==
    (Succeeded /\ Len(remargs) = 2 /\ Independent(remargs[1], remargs[2])) =>
        LET x == remargs[1]
            y == remargs[2]
        IN /\ reviews = ReassignStore(<<x, y>>, start_reviews)
           /\ reviews = ReassignStore(<<y, x>>, start_reviews)
           /\ reviews = ReassignStore(<<y>>, ReassignStore(<<x>>, start_reviews))
           /\ reviews = ReassignStore(<<x>>, ReassignStore(<<y>>, start_reviews))

\* the batch dan:cam, ann:bob has replaced the reviewers of four submissions
C13_Witness ==
    /\ Succeeded
    /\ remargs = <<<<"dan", "cam">>, <<"ann", "bob">>>>
    /\ Review(Assessment, 3, 2) \in start_reviews
    /\ FindPeerReviewers(3, Assessment, reviews) = {4}
    /\ FindPeerReviewers(2, Assessment, reviews) = {1}
    /\ FindPeerReviewers(4, Feedback, reviews) = {3}
    /\ FindPeerReviewers(1, Feedback, reviews) = {2}

---------------------------------------------------------------------------
(* Properties of the uploads *)

\* the requests of the upload methods `ops`, in call order (the requests of
\* an install or a comment upload do not depend on the store)
RECURSIVE AllRequests(_)
AllRequests(ops) ==
    IF ops = <<>> THEN <<>> ELSE Requests(Head(ops), {}) \o AllRequests(Tail(ops))

\* the uploads make_shuffle makes from the dicts it has built
ShuffleRequests ==
    AllRequests(ShuffleUploads([grades |-> assessment_comments,
                                feedback_reviews |-> feedback_reviews,
                                feedback_links |-> feedback_comments]))

\* the command has ended, by returning or by an exception
Ended == pc \in {"done", "raised"}

\* C14: a failed upload call does not abort a scheduling run: when the run
\* has ended, every request of every upload step has been attempted, also the
\* ones that follow a failed call.
C14_FailureDoesNotAbort ==
    (Built /\ Len(interviews) >= 2 /\ Ended /\ ~dryrun) =>
        [i \in 1..Len(calls) |-> calls[i].req] = ShuffleRequests

---------------------------------------------------------------------------
(* Properties of the reports *)

\* the overrides of the batch that reassign skips, in order
Unknown(pair) == ~Known(pair)
SkippedArgs == SelectSeq(remargs, Unknown)

\* the identity of an override that does not resolve: the interviewer, else
\* the interviewee
Unresolved(pair) == IF GetStudentId(pair[1]) = NoId THEN pair[1] ELSE pair[2]

\* C15: reassign prints one report for every override it skips, and the
\* report names the identity that did not resolve: the interviewer when the
\* interviewer is unknown, the interviewee when the interviewee is unknown.
C15_ReportNamesUnresolved ==
    pc # "start" =>
        /\ Len(printed) = Len(SkippedArgs)
        /\ \A k \in 1..Len(SkippedArgs) : printed[k].name = Unresolved(SkippedArgs[k])

---------------------------------------------------------------------------
(* Properties of unresolved participants in make_shuffle *)

\* no dict of comments to upload has an entry under None, and no comment has
\* been posted under None
NoUploadUnderNone ==
    /\ NoId \notin DictKeys(assessment_comments)
    /\ NoId \notin DictKeys(feedback_comments)
    /\ \A c \in posted : c.uid # NoId

\* no review of the store has None as reviewee or reviewer
NoLinkWithNone == \A r \in reviews : r.user # NoId /\ r.assessor # NoId

\* every participant on the roster has an entry in grades
ResolvableProcessed ==
    \A p \in Participants :
        GetIdForStudent(p) # NoId => GetIdForStudent(p) \in DictKeys(assessment_comments)

\* C16: in a scheduling run a participant whose identity does not resolve is
\* skipped and the run goes on: no comment is stored for upload or posted
\* under the unresolved (None) id, no review link has it as reviewee or
\* reviewer, and every resolvable participant is still processed.
C16_UnresolvedParticipantSkipped ==
    Built => NoUploadUnderNone /\ NoLinkWithNone /\ ResolvableProcessed

---------------------------------------------------------------------------
(* Properties of make_interview *)

\* the chapters of the triple drawn by the latest try
Drawn == F3Chap(q)

PairwiseDistinct(f) == f[1] # f[2] /\ f[2] # f[3] /\ f[1] # f[3]
AllIdentical(f) == f[1] = f[2] /\ f[2] = f[3]

\* a try has been made on a list of at least three questions and did not raise
Tried == ntries >= 1 /\ Len(q) >= 3 /\ pc \in {"loop", "accepted", "exhausted"}

\* the latest try left the loop by break
AcceptedNow == pc = "accepted"

\* the summary of the loop used by assign_interviews agrees with the tries
SelectRunsAgree ==
    pc \in {"accepted", "exhausted", "raised"} =>
        [raised |-> pc = "raised", questions |-> q] \in SelectRuns(q)

\* C17: in each of the tries 1 to 24 the drawn triple is accepted at once when
\* its three chapters are pairwise distinct, and retried otherwise.
C17_StrictPhaseAccepts ==
    (Tried /\ ntries <= StrictTries) => (AcceptedNow <=> PairwiseDistinct(Drawn))

\* C18: in each of the tries 25 to 32 the drawn triple is accepted exactly
\* when its three chapters are not all identical.
C18_FallbackPhaseAccepts ==
    (Tried /\ ntries > StrictTries) => (AcceptedNow <=> ~AllIdentical(Drawn))

\* the questions make_interview returned, and their chapters
ReturnedQuestions == interviews[1][2].questions
ReturnedChapters == [i \in 1..Len(ReturnedQuestions) |-> Chapter(ReturnedQuestions[i])]

\* C19: when make_interview leaves its loop by accepting a triple, the three
\* questions it returns do not all have the same chapter, and a triple
\* accepted in the tries 1 to 24 has three pairwise distinct chapters.
C19_AcceptedNotAllSame ==
    (AcceptedNow /\ Len(ReturnedQuestions) = 3) =>
        /\ ~AllIdentical(ReturnedChapters)
        /\ ntries <= StrictTries => PairwiseDistinct(ReturnedChapters)

\* a triple from two chapters is accepted after the 24th try
C19_Witness ==
    /\ AcceptedNow
    /\ ntries > StrictTries
    /\ ReturnedChapters = <<1, 2, 1>>

\* make_interview has left its loop
InterviewEnded == pc \in {"accepted", "exhausted", "raised"}

\* C20: question selection ends after at most 32 permutations of the list:
\* the call always ends, it never makes more than 32 tries, on a list of at
\* least three questions it signals no failure, and when none of the 32 tries
\* is accepted it returns the first three questions of the last permutation.
C20_EndsWithin32Tries ==
    /\ <>InterviewEnded
    /\ [](ntries <= Tries)
    /\ [](Len(q) >= 3 => pc # "raised")
    /\ [](pc = "exhausted" => ntries = Tries /\ ReturnedQuestions = Prefix(q, 3))

\* all 32 tries on three questions of one chapter are rejected
C20_Witness ==
    /\ pc = "exhausted"
    /\ ntries = Tries
    /\ Drawn = <<1, 1, 1>>
    /\ Len(ReturnedQuestions) = 3

\* every question of the list has the form <chapter>.<id>
WellFormed(questions) == \A i \in 1..Len(questions) : Chapter(questions[i]) # ValueError

\* C21: question selection never fails: for every non-empty list of
\* well-formed questions, also one of only one or two questions, make_interview
\* does not raise an error.
C21_SelectionNeverFails ==
    (Len(q) >= 1 /\ WellFormed(q)) => pc # "raised"

---------------------------------------------------------------------------
(* Properties of assign_interviews on small or blank inputs *)

\* the question list without its blank last entry is empty
EmptyPool == StripBlank(q, BlankQuestion) = <<>>

\* the question list without its blank last entry has three well-formed
\* questions or more
ValidPool ==
    /\ Len(StripBlank(q, BlankQuestion)) >= 3
    /\ WellFormed(StripBlank(q, BlankQuestion))

\* the participant list without its blank last entry
Ring == StripBlank(interviewers, BlankName)

\* C22: for every participant list, assign_interviews signals an error and
\* returns no mapping when the question list is empty or holds only the
\* trailing blank entry.
C22_EmptyPoolRaises ==
    (pc # "start" /\ EmptyPool) => pc = "raised"

\* C23: with a valid question pool assign_interviews does not fail on a
\* participant list of size 0 or 1: for an empty list it returns an empty
\* mapping, and for a single participant P one entry keyed by P whose
\* interviewee and myInterviewer are both P.
C23_SmallListsReturn ==
    (pc # "start" /\ ValidPool /\ Len(Ring) <= 1) =>
        /\ pc = "assigned"
        /\ Len(Ring) = 0 => interviews = <<>>
        /\ Len(Ring) = 1 =>
              /\ KeyList(interviews) = Ring
              /\ IntervieweeOf(Ring[1]) = Ring[1]
              /\ MyInterviewerOf(Ring[1]) = Ring[1]
              /\ Len(interviews[1][2].questions) = 3

\* bob alone is paired with bob
C23_Witness ==
    /\ pc = "assigned"
    /\ ValidPool
    /\ Ring = <<"bob">>
    /\ IntervieweeOf("bob") = "bob"

\* C24: assign_interviews has no side effect on its inputs: after the call
\* the caller's participant list and question list hold the same elements in
\* the same order as before, with or without a blank last entry.
C24_InputsUnchanged ==
    [][(pc = "start" /\ pc' \in {"assigned", "raised"}) =>
          (interviewers' = interviewers /\ q' = q)]_vars

---------------------------------------------------------------------------
(* Properties of the dry run *)

\* C25: with the dry-run flag set a run issues no mutating request: no call
\* reaches the store, and the review relations and the posted comments stay
\* as they were before the run.
C25_DryRunChangesNothing ==
    dryrun => (calls = <<>> /\ reviews = start_reviews /\ posted = {})

\* a dry run of the override ann:cam has gone through all its uploads
C25_Witness ==
    /\ dryrun
    /\ pc = "done"
    /\ remargs = <<<<"ann", "cam">>>>
    /\ DictKeys(assessment_reviews) = {"cam"}
    /\ FindPeerReviewers(3, Assessment, start_reviews) = {2}

---------------------------------------------------------------------------
(* Properties of the audit log *)

\* the lines the run has appended to assignments.log
Appended == SubSeq(log, Len(OldLog) + 1, Len(log))

\* the appended lines that record a pairing
PairingLines == SelectSeq(Appended, LAMBDA l : l.kind = "pairing")

\* the run has got as far as its uploads
UploadsStarted == pc \in {"uploading", "done"} \/ calls # <<>>

\* C26: in a scheduling run the audit log gets one line per ring pairing,
\* with the interviewer, the interviewee and the three questions of the
\* pairing; the lines are appended after what the log held already, and all
\* of them are written before the first mutating call is issued.
C26_RingLoggedBeforeUploads ==
    UploadsStarted =>
        /\ Prefix(log, Len(OldLog)) = OldLog
        /\ Len(PairingLines) = Len(interviews)
        /\ \A i \in 1..Len(interviews) :
              /\ PairingLines[i].interviewer = interviews[i][1]
              /\ PairingLines[i].interviewee = interviews[i][2].interviewee
              /\ PairingLines[i].questions = interviews[i][2].questions
              /\ Len(PairingLines[i].questions) = 3

\* the ring of three is on record and the first upload call has been refused
C26_Witness ==
    /\ Len(interviews) = 3
    /\ Len(PairingLines) = 3
    /\ Len(calls) = 1
    /\ ~calls[1].ok

---------------------------------------------------------------------------
(* Properties of blank lines *)

\* C27: the blank entries at the end of the participant list and of the
\* question list are stripped before the ring is built: no empty identifier
\* is a ring key, an interviewee or a myInterviewer, and no blank line is a
\* selected question.
C27_BlankEntriesStripped ==
    pc = "assigned" =>
        \A i \in 1..Len(interviews) :
            /\ interviews[i][1] # BlankName
            /\ interviews[i][2].interviewee # BlankName
            /\ interviews[i][2].rev_interviewer # BlankName
            /\ \A k \in 1..Len(interviews[i][2].questions) :
                  interviews[i][2].questions[k] # BlankQuestion

---------------------------------------------------------------------------
(* Properties of a repeated scheduling run *)

\* C28: a scheduling run against a store that an earlier scheduling run has
\* populated leaves every submission of the feedback assignment with at most
\* one assigned reviewer.
C28_RerunSingleReviewer ==
    (Built /\ Len(interviews) >= 2) =>
        \A i \in 1..Len(Roster) :
            Cardinality(FindPeerReviewers(Roster[i][2], Feedback, reviews)) <= 1

---------------------------------------------------------------------------
(* Properties of reassign: self review, and comments of one participant *)

\* C29: after a scheduling ring of two or more participants and any
\* reassignment run, nobody is assigned peer reviewer of their own submission
\* in either relation; an override that names one identity twice installs
\* nothing.
C29_NoSelfReview ==
    \A r \in reviews : r.user # r.assessor

\* the kinds of the messages in the comment posted for uid on the
\* assessment assignment
AssessmentMessageKinds(uid) ==
    UNION {{c.text[i].kind : i \in 1..Len(c.text)} :
              c \in {x \in posted : x.asg = Assessment /\ x.uid = uid}}

\* C30: when a participant P is the interviewee of one resolved override of
\* the batch and the interviewer of another, the comment posted for P on the
\* assessment assignment holds both messages, the one naming P's new
\* interviewer and the one naming P's new interviewee, in whichever order the
\* two overrides come.
C30_BothMessagesPosted ==
    Succeeded =>
        \A k, m \in 1..Len(ResolvedArgs) :
            (/\ k # m
             /\ ResolvedArgs[k][2] = ResolvedArgs[m][1]
             /\ ResolvedArgs[k][1] # ResolvedArgs[k][2]
             /\ ResolvedArgs[m][1] # ResolvedArgs[m][2]) =>
                {"new_interviewer", "new_interviewee"}
                    \subseteq AssessmentMessageKinds(GetStudentId(ResolvedArgs[k][2]))

===========================================================================
